---- MODULE Spec2Model ----
(***************************************************************************)
(* Model of the record utilities of template_code/utility_functions/       *)
(* fulcrum_utilities.py (class FulcrumUtilities).                          *)
(*                                                                         *)
(* Python strings are sequences of one-character strings, so that key      *)
(* concatenation, quoting and escaping are computed and not assumed.       *)
(* A Python value is a record [tag, n, s, kids]; a dict keeps its entries  *)
(* in insertion order as a sequence of [k, v] with pairwise distinct keys. *)
(***************************************************************************)
EXTENDS Integers, Sequences, FiniteSets, TLC

VARIABLES pc, flat_data, flat_sep, flat_out, hash_record, hash_str, hash_out,
          merge_in, merge_out, page_in, page_by, page_out,
          map_records, map_custom, map_out, warnings,
          date_in, date_out, norm_in, norm_out, csv_in, csv_map, csv_out,
          heap, stage_out, package, client

\* the arguments the caller holds
args == <<flat_data, flat_sep, hash_record, merge_in, page_in, page_by,
          map_records, map_custom, date_in, norm_in, csv_in, csv_map>>

\* what the calls gave back; warnings are the records given to logger.warning
outs == <<flat_out, hash_str, hash_out, merge_out, page_out, map_out, warnings>>

\* what the calls on dates, batches and files gave back, the objects in
\* memory and the reference a stage gave back, the package being built and
\* the API client
later == <<date_out, norm_out, csv_out, heap, stage_out, package, client>>

vars == <<pc, args, outs, later>>

(***************************************************************************)
(* Values                                                                  *)
(***************************************************************************)
Mk(tag, n, s, kids) == [tag |-> tag, n |-> n, s |-> s, kids |-> kids]

Entry(k, v) == [k |-> k, v |-> v]

PyNone == Mk("null", 0, <<>>, <<>>)

PyTrue == Mk("bool", 1, <<>>, <<>>)

PyFalse == Mk("bool", 0, <<>>, <<>>)

PyInt(n) == Mk("int", n, <<>>, <<>>)

\* a float whose value is the integer n (repr "n.0")
PyFloat(n) == Mk("float", n, <<>>, <<>>)

PyStr(s) == Mk("str", 0, s, <<>>)

\* a list: entries carry the empty key
PyList(items) == Mk("list", 0, <<>>, items)

PyDict(entries) == Mk("dict", 0, <<>>, entries)

Item(v) == Entry(<<>>, v)

IsScalar(v) == v.tag \in {"null", "bool", "int", "float", "str"}

(***************************************************************************)
(* Bounded input domains: every value with at most a given number of nodes *)
(***************************************************************************)
RECURSIVE ValuesOfSize(_, _, _), ItemsOfTotal(_, _, _), EntriesOfTotal(_, _, _, _)

\* the values of exactly n nodes over the scalars S and the keys K
ValuesOfSize(n, S, K) ==
    (IF n = 1 THEN S ELSE {})
      \cup { PyList(x) : x \in ItemsOfTotal(n - 1, S, K) }
      \cup { PyDict(e) : e \in EntriesOfTotal(n - 1, S, K, K) }

\* the item sequences of a list whose items have n nodes in total
ItemsOfTotal(n, S, K) ==
    IF n = 0 THEN { <<>> }
    ELSE UNION { { <<Item(v)>> \o rest :
                     v \in ValuesOfSize(j, S, K),
                     rest \in ItemsOfTotal(n - j, S, K) } : j \in 1..n }

\* the entry sequences of a dict, keys pairwise distinct and taken from free,
\* whose values have n nodes in total
EntriesOfTotal(n, S, K, free) ==
    IF n = 0 THEN { <<>> }
    ELSE UNION { UNION { { <<Entry(k, v)>> \o rest :
                             v \in ValuesOfSize(j, S, K),
                             rest \in EntriesOfTotal(n - j, S, K, free \ {k}) }
                         : j \in 1..n } : k \in free }

DictsUpTo(n, S, K) ==
    UNION { { PyDict(e) : e \in EntriesOfTotal(m - 1, S, K, K) } : m \in 1..n }

\* the containers directly inside the containers of S
Below(S) ==
    { w \in UNION { { v.kids[i].v : i \in 1..Len(v.kids) } : v \in S } :
        ~IsScalar(w) }

RECURSIVE Levels(_)

\* st = <<S, n>>: n plus the number of levels of containers from S down
Levels(st) ==
    IF st[1] = {} THEN st[2] ELSE Levels(<<Below(st[1]), st[2] + 1>>)

\* nesting depth of a value: a scalar has depth 0, a flat container depth 1
Depth(v) == IF IsScalar(v) THEN 0 ELSE Levels(<<{v}, 0>>)

RECURSIVE Containers(_)

\* st = <<S, acc>>: acc with the containers of S and every container inside
Containers(st) ==
    IF st[1] = {} THEN st[2]
    ELSE Containers(<<Below(st[1]), st[2] \cup st[1]>>)

(***************************************************************************)
(* Characters and strings                                                  *)
(***************************************************************************)
DigitChars == <<"0", "1", "2", "3", "4", "5", "6", "7", "8", "9">>

RECURSIVE str(_)

\* str(i) of a non-negative integer, as enumerate() indices are
str(i) == IF i < 10 THEN <<DigitChars[i + 1]>>
          ELSE str(i \div 10) \o <<DigitChars[(i % 10) + 1]>>

(***************************************************************************)
(* Results of a call: a returned value or a raised exception               *)
(***************************************************************************)
Ok(val) == [err |-> "", val |-> val]

Raise(e) == [err |-> e, val |-> <<>>]

NoCall == Raise("not called")

(***************************************************************************)
(* dict(items): a later item with a key already present replaces the value *)
(* and keeps the position of the first occurrence                          *)
(***************************************************************************)
HasKey(entries, k) == \E i \in 1..Len(entries) : entries[i].k = k

SetKey(entries, k, v) ==
    IF HasKey(entries, k)
    THEN [i \in 1..Len(entries) |->
            IF entries[i].k = k THEN Entry(k, v) ELSE entries[i]]
    ELSE Append(entries, Entry(k, v))

RECURSIVE dict(_, _, _)

dict(items, i, acc) ==
    IF i > Len(items) THEN acc
    ELSE dict(items, i + 1, SetKey(acc, items[i].k, items[i].v))

(***************************************************************************)
(* FulcrumUtilities.flatten_nested_dict                                    *)
(***************************************************************************)
\* the names bound at module level of fulcrum_utilities.py; a function body
\* resolves a bare name here (class attributes are not in scope)
ModuleGlobals ==
    {"json", "csv", "os", "Path", "Dict", "List", "Optional", "Union", "Any",
     "datetime", "timedelta", "logging", "hashlib", "re", "logger",
     "FulcrumUtilities", "example_usage"}

RECURSIVE flatten_nested_dict(_, _, _), flatten_items(_, _, _, _, _),
          flatten_list(_, _, _, _, _)

\* the call expression flatten_nested_dict(...) inside the method body
call_flatten_nested_dict(data, parent_key, sep) ==
    IF "flatten_nested_dict" \in ModuleGlobals
    THEN flatten_nested_dict(data, parent_key, sep)
    ELSE Raise("NameError")

\* for i, item in enumerate(v)
flatten_list(v, i, new_key, sep, items) ==
    IF i > Len(v.kids) THEN Ok(items)
    ELSE LET item == v.kids[i].v
             ikey == new_key \o <<"_">> \o str(i - 1)
         IN IF item.tag = "dict"
            THEN LET sub == call_flatten_nested_dict(item, ikey, sep)
                 IN IF sub.err # "" THEN sub
                    ELSE flatten_list(v, i + 1, new_key, sep, items \o sub.val)
            ELSE flatten_list(v, i + 1, new_key, sep,
                              Append(items, Entry(ikey, item)))

\* for k, v in data.items()
flatten_items(data, i, parent_key, sep, items) ==
    IF i > Len(data.kids) THEN Ok(items)
    ELSE LET k == data.kids[i].k
             v == data.kids[i].v
             new_key == IF parent_key # <<>> THEN parent_key \o sep \o k ELSE k
         IN IF v.tag = "dict"
            THEN LET sub == call_flatten_nested_dict(v, new_key, sep)
                 IN IF sub.err # "" THEN sub
                    ELSE flatten_items(data, i + 1, parent_key, sep,
                                       items \o sub.val)
            ELSE IF v.tag = "list"
            THEN LET sub == flatten_list(v, 1, new_key, sep, items)
                 IN IF sub.err # "" THEN sub
                    ELSE flatten_items(data, i + 1, parent_key, sep, sub.val)
            ELSE flatten_items(data, i + 1, parent_key, sep,
                               Append(items, Entry(new_key, v)))

flatten_nested_dict(data, parent_key, sep) ==
    LET r == flatten_items(data, 1, parent_key, sep, <<>>)
    IN IF r.err # "" THEN r ELSE Ok(dict(r.val, 1, <<>>))

(***************************************************************************)
(* Inputs of flatten                                                       *)
(***************************************************************************)
\* largest number of nodes of an input of flatten
MaxFlatSize == 4

FlatKeys == { <<"a">>, <<"0">>, <<"a", "_", "0">> }

FlatScalars == { PyNone, PyInt(1), PyStr(<<"1">>) }

Separators == { <<"_">>, <<".">> }

\* the default of the maxDepth argument of the flatten contract
maxDepth == 32

RECURSIVE Nest(_, _)

\* v inside n mappings {"a": ...}; the inner half is built before the outer
\* one is put around it
Nest(v, n) ==
    IF n = 0 THEN v
    ELSE IF n = 1 THEN PyDict(<<Entry(<<"a">>, v)>>)
    ELSE LET inner == Nest(v, n \div 2)
         IN IF inner.tag = "dict" THEN Nest(inner, n - n \div 2) ELSE v

\* {"a": {"a": ... {"a": 1}}} with n mappings
Chain(n) == Nest(PyInt(1), n)

\* every mapping of at most n nodes, and one nested deeper than maxDepth
FlatInputs(n) == DictsUpTo(n, FlatScalars, FlatKeys) \cup {Chain(maxDepth + 1)}

(***************************************************************************)
(* FulcrumUtilities.calculate_record_hash:                                 *)
(*   json.dumps(record, sort_keys=True, default=str), then md5 hexdigest   *)
(***************************************************************************)
\* the characters of the model in code point order
Alphabet ==
    <<" ", "\"", "+", ",", "-", ".", "0", "1", "2", "3", "4", "5", "6", "7",
      "8", "9", ":", "T", "Z", "[", "\\", "]", "_", "a", "b", "d", "e", "f",
      "i", "l", "n", "r", "s", "t", "u", "{", "}">>

ord(c) == CHOOSE i \in 1..Len(Alphabet) : Alphabet[i] = c

RECURSIVE StrLess(_, _, _)

\* a < b on Python strings: the first differing character decides, a proper
\* prefix is smaller
StrLess(a, b, i) ==
    IF i > Len(b) THEN FALSE
    ELSE IF i > Len(a) THEN TRUE
    ELSE IF a[i] # b[i] THEN ord(a[i]) < ord(b[i])
    ELSE StrLess(a, b, i + 1)

RECURSIVE Insert(_, _, _)

Insert(sorted, e, i) ==
    IF i > Len(sorted) THEN Append(sorted, e)
    ELSE IF StrLess(e.k, sorted[i].k, 1)
         THEN SubSeq(sorted, 1, i - 1) \o <<e>> \o SubSeq(sorted, i, Len(sorted))
         ELSE Insert(sorted, e, i + 1)

\* json.dumps without sort_keys: the items in insertion order
sort_keys_off(entries, i, acc) == entries

RECURSIVE sort_keys(_, _, _)

\* sort_keys=True: the items of a dict ordered by key
sort_keys(entries, i, acc) ==
    IF i > Len(entries) THEN acc
    ELSE sort_keys(entries, i + 1, Insert(acc, entries[i], 1))

\* a JSON string body written without escaping
escape_none(s, i) == s

RECURSIVE escape(_, _)

\* the body of a JSON string: '"' and '\' get a backslash
escape(s, i) ==
    IF i > Len(s) THEN <<>>
    ELSE (IF s[i] \in {"\"", "\\"} THEN <<"\\", s[i]>> ELSE <<s[i]>>)
         \o escape(s, i + 1)

\* a string written as str() gives it, without quotes
encode_str_bare(s) == escape(s, 1)

encode_str(s) == <<"\"">> \o escape(s, 1) \o <<"\"">>

int_repr(n) == IF n < 0 THEN <<"-">> \o str(0 - n) ELSE str(n)

float_repr(n) == int_repr(n) \o <<".", "0">>

encode_scalar(v) ==
    CASE v.tag = "null" -> <<"n", "u", "l", "l">>
      [] v.tag = "bool" -> IF v.n = 1 THEN <<"t", "r", "u", "e">>
                           ELSE <<"f", "a", "l", "s", "e">>
      [] v.tag = "int" -> int_repr(v.n)
      [] v.tag = "float" -> float_repr(v.n)
      [] v.tag = "str" -> encode_str(v.s)

RECURSIVE dumps(_), dumps_items(_, _, _)

\* "x, y, z" for a list (isDict = FALSE) or "k: x, l: y" for sorted entries
dumps_items(kids, i, isDict) ==
    IF i > Len(kids) THEN <<>>
    ELSE (IF i > 1 THEN <<",", " ">> ELSE <<>>)
         \o (IF isDict THEN encode_str(kids[i].k) \o <<":", " ">> ELSE <<>>)
         \o dumps(kids[i].v)
         \o dumps_items(kids, i + 1, isDict)

dumps(v) ==
    IF v.tag = "list" THEN <<"[">> \o dumps_items(v.kids, 1, FALSE) \o <<"]">>
    ELSE IF v.tag = "dict"
    THEN <<"{">> \o dumps_items(sort_keys(v.kids, 1, <<>>), 1, TRUE) \o <<"}">>
    ELSE encode_scalar(v)

\* hashlib.md5(bytes).hexdigest(): the digest is not computed; it is a value
\* that is the same for the same bytes and differs for different bytes
md5_hexdigest(bytes) == <<"md5">> \o bytes

calculate_record_hash(record) == md5_hexdigest(dumps(record))

(***************************************************************************)
(* Inputs of calculate_record_hash                                         *)
(***************************************************************************)
\* largest number of nodes of a hashed record
MaxHashSize == 4

HashKeys == { <<"b">>, <<"a", "b">> }

HashScalars ==
    { PyNone, PyTrue, PyInt(1), PyFloat(1),
      PyStr(<<"1">>), PyStr(<<"n", "u", "l", "l">>),
      PyStr(<<"t", "r", "u", "e">>),
      PyStr(<<"1", "\"", ",", " ", "\"", "1">>) }

HashInputs(n) == DictsUpTo(n, HashScalars, HashKeys)

(***************************************************************************)
(* FulcrumUtilities.merge_records                                          *)
(***************************************************************************)
\* d[key] on the entries of a dict that has the key
getitem(entries, key) ==
    entries[CHOOSE i \in 1..Len(entries) : entries[i].k = key].v

\* record.get(key, default)
get(record, key, default) ==
    IF HasKey(record.kids, key) THEN getitem(record.kids, key) ELSE default

\* bool(v) is False
Falsy(v) ==
    \/ v.tag = "null"
    \/ v.tag \in {"bool", "int", "float"} /\ v.n = 0
    \/ v.tag = "str" /\ v.s = <<>>
    \/ v.tag \in {"list", "dict"} /\ v.kids = <<>>

K_id == <<"i", "d">>

K_updated_at == <<"_", "u", "p", "d", "a", "t", "e", "d", "_", "a", "t">>

\* new_updated >= current_updated
newer_or_equal(new_updated, current_updated) ==
    ~StrLess(new_updated.s, current_updated.s, 1)

\* new_updated > current_updated, on two str
newer(new_updated, current_updated) ==
    StrLess(current_updated.s, new_updated.s, 1)

\* a dict assignment that moves a key already present to the end
merged_set_last(merged, key, record) ==
    SelectSeq(merged, LAMBDA e : e.k # key) \o <<Entry(key, record)>>

\* merged[key] = record
merged_set(merged, key, record) == SetKey(merged, key, record)

RECURSIVE merge_loop(_, _, _, _)

\* for record in records
merge_loop(records, i, merge_key, merged) ==
    IF i > Len(records) THEN Ok(merged)
    ELSE LET record == records[i]
             key == get(record, merge_key, PyNone)
         IN IF Falsy(key) THEN merge_loop(records, i + 1, merge_key, merged)
            ELSE IF ~HasKey(merged, key)
            THEN merge_loop(records, i + 1, merge_key,
                            merged_set(merged, key, record))
            ELSE LET current_updated ==
                         get(getitem(merged, key), K_updated_at, PyStr(<<>>))
                     new_updated == get(record, K_updated_at, PyStr(<<>>))
                 IN IF new_updated.tag # "str" \/ current_updated.tag # "str"
                    THEN Raise("TypeError")
                    ELSE IF newer(new_updated, current_updated)
                    THEN merge_loop(records, i + 1, merge_key,
                                    merged_set(merged, key, record))
                    ELSE merge_loop(records, i + 1, merge_key, merged)

\* list(merged.values())
values(merged) == [i \in 1..Len(merged) |-> merged[i].v]

merge_records(records, merge_key) ==
    LET r == merge_loop(records, 1, merge_key, <<>>)
    IN IF r.err # "" THEN r ELSE Ok(values(r.val))

(***************************************************************************)
(* Inputs of merge_records                                                 *)
(***************************************************************************)
\* largest number of records in a merged batch
MaxMerge == 3

T_Jan == <<"2", "0", "2", "4", "-", "0", "1", "-", "0", "1", "T",
           "0", "0", ":", "0", "0", ":", "0", "0", "Z">>

T_Feb == <<"2", "0", "2", "4", "-", "0", "2", "-", "0", "1", "T",
           "0", "0", ":", "0", "0", ":", "0", "0", "Z">>

\* 2024-02-01T00:00:00Z as milliseconds since the epoch
T_FebMillis == <<"1", "7", "0", "6", "7", "4", "5", "6", "0", "0", "0", "0", "0">>

\* no id, an empty id, or one of two ids
IdChoices ==
    { <<>> } \cup { <<Entry(K_id, PyStr(x))>> : x \in { <<>>, <<"1">>, <<"2">> } }

\* no _updated_at, or one of the timestamps
UpdatedChoices ==
    { <<>> } \cup { <<Entry(K_updated_at, PyStr(x))>> : x \in { T_Jan, T_Feb, T_FebMillis } }

\* the choices of identity and timestamp for a batch of m records
MergeChoices(m) == [1..m -> IdChoices \X UpdatedChoices]

\* the batch of the choices f; record i carries "v": i
MergeBatch(f) ==
    [i \in DOMAIN f |-> PyDict(f[i][1] \o f[i][2] \o <<Entry(<<"v">>, PyInt(i))>>)]

(***************************************************************************)
(* FulcrumUtilities.paginate_records                                       *)
(***************************************************************************)
\* range() stepping one further than asked
range_stride(start, stop, step) ==
    IF step = 0 THEN Raise("ValueError")
    ELSE IF step > 0 /\ start < stop
    THEN Ok([k \in 1..((stop - start + step) \div (step + 1)) |->
               start + (k - 1) * (step + 1)])
    ELSE Ok(<<>>)

\* list(range(start, stop, step)); a zero step raises ValueError
range(start, stop, step) ==
    IF step = 0 THEN Raise("ValueError")
    ELSE IF step > 0 /\ start < stop
    THEN Ok([k \in 1..((stop - start + step - 1) \div step) |->
               start + (k - 1) * step])
    ELSE IF step < 0 /\ start > stop
    THEN Ok([k \in 1..((start - stop - step - 1) \div (0 - step)) |->
               start + (k - 1) * step])
    ELSE Ok(<<>>)

\* a slice that leaves out the element before the stop index
slice_short(records, start, stop) ==
    SubSeq(records, start + 1,
           (IF stop < Len(records) THEN stop ELSE Len(records)) - 1)

\* records[start:stop] for 0 <= start <= stop
slice(records, start, stop) ==
    SubSeq(records, start + 1, IF stop < Len(records) THEN stop ELSE Len(records))

\* a loop whose body runs once more, on the index after the last
paginate_loop_extra(records, starts, page_size) ==
    [k \in 1..(Len(starts) + 1) |->
        IF k <= Len(starts) THEN slice(records, starts[k], starts[k] + page_size)
        ELSE slice(records, Len(records), Len(records) + page_size)]

\* for i in range(...): pages.append(records[i:i + page_size])
paginate_loop(records, starts, page_size) ==
    [k \in 1..Len(starts) |-> slice(records, starts[k], starts[k] + page_size)]

paginate_records(records, page_size) ==
    LET r == range(0, Len(records), page_size)
    IN IF r.err # "" THEN r ELSE Ok(paginate_loop(records, r.val, page_size))

(***************************************************************************)
(* Inputs of paginate_records                                              *)
(***************************************************************************)
\* longest paginated sequence
MaxPageLen == 4

\* largest page size asked for, and the most negative one
MaxPageSize == 3

PageElems == {1, 2, 3}

\* range(250): three pages at page_size = 100, the default
ExampleRange == [i \in 1..250 |-> i - 1]

PageInputs(n) == UNION { [1..m -> PageElems] : m \in 0..n }

(***************************************************************************)
(* FulcrumUtilities.create_field_mapping                                   *)
(***************************************************************************)
RECURSIVE lstrip_marker(_)

\* field.lstrip('_'): every leading underscore removed
lstrip_marker(field) ==
    IF field # <<>> /\ field[1] = "_" THEN lstrip_marker(Tail(field)) ELSE field

\* field[1:]
strip_marker(field) == SubSeq(field, 2, Len(field))

\* field.startswith('_')
startswith_marker(field) == field # <<>> /\ field[1] = "_"

\* record.keys()
keys(record) == { record.kids[i].k : i \in 1..Len(record.kids) }

\* all_fields after the update loop
all_fields(records) == UNION { keys(records[i]) : i \in 1..Len(records) }

\* the custom name applied first and the default rule after it
clean_name_default_last(field, custom_names) ==
    LET custom == IF ~Falsy(custom_names) /\ HasKey(custom_names.kids, field)
                  THEN getitem(custom_names.kids, field)
                  ELSE PyStr(field)
    IN IF startswith_marker(field) THEN PyStr(strip_marker(field)) ELSE custom

\* the body of the loop over all_fields: the value stored under field
clean_name(field, custom_names) ==
    LET default == IF startswith_marker(field) THEN strip_marker(field) ELSE field
    IN IF ~Falsy(custom_names) /\ HasKey(custom_names.kids, field)
       THEN getitem(custom_names.kids, field)
       ELSE PyStr(default)

\* the mapping as its set of items: all_fields is a set, and the order in
\* which a set is iterated is not fixed
create_field_mapping(records, custom_names) ==
    IF records = <<>> THEN Ok({})
    ELSE Ok({ Entry(field, clean_name(field, custom_names)) :
                field \in all_fields(records) })

(***************************************************************************)
(* Inputs of create_field_mapping                                          *)
(***************************************************************************)
\* largest number of records a mapping is built from
MaxMapRecords == 2

MapFields == << <<"_", "s">>, <<"s">>, <<"_", "_", "s">> >>

OverrideKeys == << <<"_", "s">>, <<"s">>, <<"x">> >>

DisplayNames == { PyStr(<<"s">>), PyStr(<<"t">>) }

RECURSIVE SubDicts(_, _, _)

\* the dicts whose keys are some of keys[i..], in that order, values from vals
SubDicts(fields, i, vals) ==
    IF i > Len(fields) THEN { <<>> }
    ELSE LET rest == SubDicts(fields, i + 1, vals)
         IN rest \cup { <<Entry(fields[i], v)>> \o r : v \in vals, r \in rest }

MapRecordInputs(n) ==
    UNION { [1..m -> { PyDict(e) : e \in SubDicts(MapFields, 1, {PyNone}) }] :
              m \in 0..n }

CustomNameInputs ==
    {PyNone} \cup { PyDict(e) : e \in SubDicts(OverrideKeys, 1, DisplayNames) }

(***************************************************************************)
(* FulcrumUtilities.parse_fulcrum_date                                     *)
(***************************************************************************)
RECURSIVE replace_Z(_, _)

\* date_string.replace('Z', '+00:00')
replace_Z(s, i) ==
    IF i > Len(s) THEN <<>>
    ELSE (IF s[i] = "Z" THEN <<"+", "0", "0", ":", "0", "0">> ELSE <<s[i]>>)
         \o replace_Z(s, i + 1)

RECURSIVE number(_, _, _)

\* the number written by the digits s[a..b]
number(s, a, b) ==
    IF b < a THEN 0
    ELSE 10 * number(s, a, b - 1) + (CHOOSE d \in 0..9 : DigitChars[d + 1] = s[b])

\* the texts at the positions a..b of s are digits
digits_at(s, a, b) ==
    b <= Len(s) /\ \A j \in a..b : \E d \in 1..10 : DigitChars[d] = s[j]

days_in_month(y, m) ==
    IF m = 2
    THEN (IF y % 4 = 0 /\ (y % 100 # 0 \/ y % 400 = 0) THEN 29 ELSE 28)
    ELSE IF m \in {4, 6, 9, 11} THEN 30 ELSE 31

\* a datetime of the calendar fields f, aware (1) or naive (0)
datetime(aware, f) == Mk("datetime", aware, <<>>, f)

\* datetime.fromisoformat on the extended format: YYYY-MM-DD, then any one
\* separator and HH:MM:SS, then an offset +HH:MM or -HH:MM; ValueError on a
\* text of another shape or with a field out of range
fromisoformat(s) ==
    LET date_ok == /\ digits_at(s, 1, 4) /\ digits_at(s, 6, 7) /\ digits_at(s, 9, 10)
                   /\ s[5] = "-" /\ s[8] = "-"
        time_ok == /\ digits_at(s, 12, 13) /\ digits_at(s, 15, 16) /\ digits_at(s, 18, 19)
                   /\ s[14] = ":" /\ s[17] = ":"
        zone_ok == /\ Len(s) = 25 /\ s[20] \in {"+", "-"} /\ s[23] = ":"
                   /\ digits_at(s, 21, 22) /\ digits_at(s, 24, 25)
        shape == date_ok /\ (Len(s) = 10 \/ (time_ok /\ (Len(s) = 19 \/ zone_ok)))
    IN IF ~shape THEN Raise("ValueError")
       ELSE LET y == number(s, 1, 4)
                m == number(s, 6, 7)
                d == number(s, 9, 10)
                t == IF Len(s) = 10 THEN <<0, 0, 0>>
                     ELSE <<number(s, 12, 13), number(s, 15, 16), number(s, 18, 19)>>
                z == IF Len(s) = 25 THEN <<number(s, 21, 22), number(s, 24, 25)>>
                     ELSE <<0, 0>>
            IN IF /\ y >= 1 /\ m \in 1..12 /\ d >= 1 /\ d <= days_in_month(y, m)
                  /\ t[1] <= 23 /\ t[2] <= 59 /\ t[3] <= 59
                  /\ z[1] <= 23 /\ z[2] <= 59
               THEN Ok(datetime(IF Len(s) = 25 THEN 1 ELSE 0,
                                <<y, m, d, t[1], t[2], t[3]>> \o
                                (IF Len(s) = 25 THEN <<s[20]>> \o z ELSE <<>>)))
               ELSE Raise("ValueError")

RECURSIVE lstrip_zeros(_)

lstrip_zeros(d) == IF d # <<>> /\ d[1] = "0" THEN lstrip_zeros(Tail(d)) ELSE d

\* float(s), a float being nan, an infinity or the decimal d * 10^e of the
\* digits d, on a text of the characters of the model: an optional sign, then
\* inf, nan or digits with an optional exponent; ValueError otherwise.  The
\* longest digit runs of the model begin with 1, so that a numeral is beyond
\* the largest double (1.797e308) exactly when it has more than 309 digits
\* before the point.
float(s) ==
    LET signed == s # <<>> /\ s[1] \in {"-", "+"}
        neg == s # <<>> /\ s[1] = "-"
        body == IF signed THEN Tail(s) ELSE s
        E == { i \in 1..Len(body) : body[i] = "e" }
        epos == IF E = {} THEN Len(body) + 1 ELSE CHOOSE i \in E : \A j \in E : i <= j
        mant == SubSeq(body, 1, epos - 1)
        etxt == SubSeq(body, epos + 1, Len(body))
        esigned == etxt # <<>> /\ etxt[1] \in {"-", "+"}
        edig == IF esigned THEN Tail(etxt) ELSE etxt
    IN IF body = <<"i", "n", "f">> THEN Ok([kind |-> "inf", neg |-> neg, d |-> <<>>, e |-> 0])
       ELSE IF body = <<"n", "a", "n">> THEN Ok([kind |-> "nan", neg |-> neg, d |-> <<>>, e |-> 0])
       ELSE IF \/ mant = <<>> \/ ~digits_at(mant, 1, Len(mant))
               \/ E # {} /\ (edig = <<>> \/ ~digits_at(edig, 1, Len(edig)))
       THEN Raise("ValueError")
       ELSE LET d == lstrip_zeros(mant)
                e == IF etxt # <<>> /\ etxt[1] = "-"
                     THEN 0 - number(edig, 1, Len(edig))
                     ELSE number(edig, 1, Len(edig))
            IN IF d # <<>> /\ Len(d) + e > 309
               THEN Ok([kind |-> "inf", neg |-> neg, d |-> <<>>, e |-> 0])
               ELSE Ok([kind |-> "fin", neg |-> neg, d |-> d, e |-> e])

\* x / 1000
div_1000(x) == IF x.kind = "fin" THEN [x EXCEPT !.e = x.e - 3] ELSE x

\* the digits of the integer part of a finite float
int_digits(x) ==
    IF x.d = <<>> THEN <<>>
    ELSE IF x.e >= 0 THEN x.d \o [i \in 1..x.e |-> "0"]
    ELSE SubSeq(x.d, 1, Len(x.d) + x.e)

\* a < b on two numerals without leading zeros
digits_less(a, b) == Len(a) < Len(b) \/ (Len(a) = Len(b) /\ StrLess(a, b, 1))

\* datetime.fromtimestamp(timestamp), local time being UTC: ValueError on nan
\* and on a year outside 1..9999, OverflowError on what does not fit time_t
fromtimestamp(timestamp) ==
    IF timestamp.kind = "nan" THEN Raise("ValueError")
    ELSE IF timestamp.kind = "inf" THEN Raise("OverflowError")
    ELSE LET secs == int_digits(timestamp)
             \* 2^63 - 512: from here on a double is 2^63 or more
             TimeTLimit == <<"9", "2", "2", "3", "3", "7", "2", "0", "3", "6",
                             "8", "5", "4", "7", "7", "5", "2", "9", "6">>
             \* the second after 9999-12-31T23:59:59
             YearLimit == <<"2", "5", "3", "4", "0", "2", "3", "0", "0", "8",
                            "0", "0">>
             \* the seconds from 0001-01-02T00:00:00 to the epoch
             YearFloor == <<"6", "2", "1", "3", "5", "5", "1", "0", "4", "0",
                            "0">>
         IN IF ~digits_less(secs, TimeTLimit) THEN Raise("OverflowError")
            ELSE IF \/ ~timestamp.neg /\ ~digits_less(secs, YearLimit)
                    \/ timestamp.neg /\ digits_less(YearFloor, secs)
            THEN Raise("ValueError")
            ELSE Ok(datetime(0, <<timestamp.neg, secs>>))

\* the result of the call (out) and what it gave to logger.warning (warned);
\* the second except clause takes ValueError and OSError only
parse_fulcrum_date(date_string) ==
    IF date_string = <<>> THEN [out |-> Ok(PyNone), warned |-> <<>>]
    ELSE LET iso == fromisoformat(replace_Z(date_string, 1))
         IN IF iso.err # "ValueError" THEN [out |-> iso, warned |-> <<>>]
            ELSE LET value == float(date_string)
                     stamp == IF value.err # "" THEN value
                              ELSE fromtimestamp(div_1000(value.val))
                 IN IF stamp.err = "" THEN [out |-> stamp, warned |-> <<>>]
                    ELSE IF stamp.err \in {"ValueError", "OSError"}
                    THEN [out |-> Ok(PyNone), warned |-> <<PyStr(date_string)>>]
                    ELSE [out |-> stamp, warned |-> <<>>]

(***************************************************************************)
(* Inputs of parse_fulcrum_date                                            *)
(***************************************************************************)
\* longest text drawn from DateChars
MaxDateLen == 3

\* the empty text, the short texts, the two accepted formats, an ISO text
\* with a month 13, and numerals far outside the range of dates
DateInputs(n) ==
    UNION { [1..m -> {"1", "e", "-", "i", "n", "f", "a"}] : m \in 0..n }
      \cup { T_Jan, T_Feb, T_FebMillis,
             <<"2", "0", "2", "4", "-", "1", "3", "-", "0", "1", "T",
               "0", "0", ":", "0", "0", ":", "0", "0", "Z">>,
             <<"1", "e", "2", "0">>, <<"1", "e", "2", "3">>,
             <<"-", "1", "e", "2", "3">>, <<"1", "e", "4", "0", "0">> }

(***************************************************************************)
(* FulcrumUtilities.export_records_to_csv                                  *)
(***************************************************************************)
RECURSIVE sorted(_)

\* sorted(S) on a set of str
sorted(S) ==
    IF S = {} THEN <<>>
    ELSE LET least == CHOOSE x \in S : \A y \in S \ {x} : StrLess(x, y, 1)
         IN <<least>> \o sorted(S \ {least})

\* field_mapping.get(field, field), the names of the model being str
mapped_name(field_mapping, field) == get(field_mapping, field, PyStr(field)).s

RECURSIVE mapped_record(_, _, _, _)

\* for key, value in record.items(): mapped_record[mapped_key] = value
mapped_record(record, i, field_mapping, acc) ==
    IF i > Len(record.kids) THEN acc
    ELSE mapped_record(record, i + 1, field_mapping,
             SetKey(acc, mapped_name(field_mapping, record.kids[i].k),
                    record.kids[i].v))

\* csv.DictWriter.writerow: the values of rowdict in the order of fieldnames,
\* '' for a field the row does not have
writerow(fieldnames, rowdict) ==
    [c \in 1..Len(fieldnames) |->
        IF HasKey(rowdict, fieldnames[c]) THEN getitem(rowdict, fieldnames[c])
        ELSE PyStr(<<>>)]

\* the file: its header, and its rows as the values handed to the csv writer
csv_file(records, field_mapping) ==
    LET fields == IF ~Falsy(field_mapping)
                  THEN { mapped_name(field_mapping, field) : field \in all_fields(records) }
                  ELSE all_fields(records)
        sorted_fields == sorted(fields)
    IN [header |-> sorted_fields,
        rows |-> [r \in 1..Len(records) |->
                    writerow(sorted_fields,
                             IF ~Falsy(field_mapping)
                             THEN mapped_record(records[r], 1, field_mapping, <<>>)
                             ELSE records[r].kids)]]

\* the name of the file the caller asks for
Filename == <<"o", ".", "c", "s", "v">>

\* the returned path, the file written (header <<>> and no rows: none) and
\* the message given to logger.warning; open() succeeds or raises OSError
export_records_to_csv(records, filename, field_mapping, can_open) ==
    IF records = <<>>
    THEN [path |-> <<>>, file |-> [header |-> <<>>, rows |-> <<>>],
          warned |-> <<PyStr(<<"N", "o", " ", "r", "e", "c", "o", "r", "d", "s",
                               " ", "t", "o", " ", "e", "x", "p", "o", "r", "t">>)>>]
    ELSE IF ~can_open
    THEN [path |-> <<>>, file |-> [header |-> <<>>, rows |-> <<>>], warned |-> <<>>]
    ELSE [path |-> filename, file |-> csv_file(records, field_mapping),
          warned |-> <<>>]

\* largest number of records exported
MaxCsvRecords == 2

\* the records: some of the fields _s and s, each with the value a or b
CsvRecords == { PyDict(e) : e \in SubDicts(<< <<"_", "s">>, <<"s">> >>, 1,
                                           { PyStr(<<"a">>), PyStr(<<"b">>) }) }

\* no mapping, or one that names some of the fields s or t
CsvMappings ==
    {PyNone} \cup { PyDict(e) : e \in SubDicts(<< <<"_", "s">>, <<"s">> >>, 1,
                                               DisplayNames) }

(***************************************************************************)
(* FulcrumAPIClient (api_examples/fulcrum_api_client.py): the clock, the   *)
(* rate limiter and the requests sent.  Time is counted in ticks of 50 ms. *)
(***************************************************************************)
\* self.rate_limit_delay = 0.1, in ticks
rate_limit_delay == 2

\* the latest time on the clock, and the most requests one client sends
MaxTime == 6

MaxRequests == 3

\* FulcrumAPIClient(...) made at time.time() = now: nothing sent so far;
\* sent holds, for each request, when it went out and the operation
new_client(now) == [now |-> now, last_request_time |-> 0, sent |-> <<>>]

\* self._rate_limit(); time.sleep returns on time or late ticks after it
rate_limit(c, late) ==
    LET time_since_last == c.now - c.last_request_time
        woke == IF time_since_last < rate_limit_delay
                THEN c.now + (rate_limit_delay - time_since_last) + late
                ELSE c.now
    IN [c EXCEPT !.now = woke, !.last_request_time = woke]

\* self.session.request / get / post: the request goes out now
session_request(c, op) == [c EXCEPT !.sent = Append(c.sent, [at |-> c.now, op |-> op])]

(***************************************************************************)
(* FulcrumDataProcessor.create_data_package (data_processing/              *)
(* fulcrum_data_processor.py), step by step; every step that touches the   *)
(* file system succeeds or raises                                          *)
(***************************************************************************)
\* the export calls of lines 313-318, in their order
Targets == <<"csv", "json", "excel", "report">>

\* the call has just begun: at is the step to take, dir the package
\* directory (none, exists, removed), files the exports written into it,
\* exports the paths the calls returned, logged what each gave to the logger,
\* zip the archive (none, partial, complete), returned the result of the call
new_package(include_photos) ==
    [at |-> "mkdir", include_photos |-> include_photos, dir |-> "none",
     files |-> {}, exports |-> [t \in {} |-> ""], logged |-> [t \in {} |-> ""],
     zip |-> "none", returned |-> "running"]

\* except Exception of line 360: logger.error, return ""
except(p) == [p EXCEPT !.at = "done", !.returned = ""]

\* an export whose exception is not caught inside it
export_unguarded(p, target, ok) ==
    IF ok
    THEN [p EXCEPT !.files = @ \cup {target},
                   !.exports = (target :> "path") @@ @,
                   !.logged = (target :> "info") @@ @]
    ELSE except(p)

\* export_to_csv, export_to_json, export_to_excel, generate_summary_report:
\* the body writes the file, logs and returns its path; every exception is
\* caught inside, logged as an error, and "" is returned
export(p, target, ok) ==
    IF ok
    THEN [p EXCEPT !.files = @ \cup {target},
                   !.exports = (target :> "path") @@ @,
                   !.logged = (target :> "info") @@ @]
    ELSE [p EXCEPT !.exports = (target :> "") @@ @,
                   !.logged = (target :> "error") @@ @]

(***************************************************************************)
(* FulcrumDataProcessor.process_fulcrum_records and _clean_fulcrum_fields  *)
(* (data_processing/fulcrum_data_processor.py).  A DataFrame is its column *)
(* labels, which may repeat, and its rows of cells; NaN is a missing cell. *)
(***************************************************************************)
\* the field names the model writes out
Names ==
    [status |-> <<"s", "t", "a", "t", "u", "s">>,
     created_at |-> <<"c", "r", "e", "a", "t", "e", "d", "_", "a", "t">>,
     updated_at |-> <<"u", "p", "d", "a", "t", "e", "d", "_", "a", "t">>,
     form_values |-> <<"f", "o", "r", "m", "_", "v", "a", "l", "u", "e", "s">>,
     processed_at |-> <<"_", "p", "r", "o", "c", "e", "s", "s", "e", "d", "_", "a", "t">>,
     form_name |-> <<"_", "f", "o", "r", "m", "_", "n", "a", "m", "e">>,
     record_count |-> <<"_", "r", "e", "c", "o", "r", "d", "_", "c", "o", "u", "n", "t">>]

\* field_mappings of lines 87-100: '_id' to 'record_id', and eleven names
\* that lose their leading underscore
field_mappings ==
    LET plain ==
          << <<"s", "t", "a", "t", "u", "s">>,
             <<"c", "r", "e", "a", "t", "e", "d", "_", "a", "t">>,
             <<"u", "p", "d", "a", "t", "e", "d", "_", "a", "t">>,
             <<"c", "r", "e", "a", "t", "e", "d", "_", "b", "y">>,
             <<"u", "p", "d", "a", "t", "e", "d", "_", "b", "y">>,
             <<"g", "e", "o", "m", "e", "t", "r", "y">>,
             <<"p", "h", "o", "t", "o", "s">>,
             <<"s", "i", "g", "n", "a", "t", "u", "r", "e", "s">>,
             <<"a", "u", "d", "i", "o">>,
             <<"v", "i", "d", "e", "o">>,
             <<"n", "o", "t", "e", "s">> >>
    IN PyDict(<<Entry(<<"_", "i", "d">>, PyStr(<<"r", "e", "c", "o", "r", "d", "_", "i", "d">>))>>
              \o [i \in 1..Len(plain) |-> Entry(<<"_">> \o plain[i], PyStr(plain[i]))])

NaN == Mk("nan", 0, <<>>, <<>>)

\* pd.DataFrame(rows) on a list of dicts given by their items: the columns
\* are the keys in the order they are first seen, a key a row lacks is NaN
DataFrame(rows) ==
    LET K == UNION { { rows[r][e].k : e \in 1..Len(rows[r]) } : r \in 1..Len(rows) }
        seen(k) == CHOOSE p \in (1..Len(rows)) \X (1..Cardinality(K)) :
                       /\ p[2] <= Len(rows[p[1]]) /\ rows[p[1]][p[2]].k = k
                       /\ \A r \in 1..p[1] : \A e \in 1..Len(rows[r]) :
                              rows[r][e].k = k => (r = p[1] /\ e >= p[2])
        before(a, b) == a[1] < b[1] \/ (a[1] = b[1] /\ a[2] < b[2])
        columns == [c \in 1..Cardinality(K) |->
                      CHOOSE k \in K :
                          Cardinality({ j \in K : before(seen(j), seen(k)) }) = c - 1]
    IN [columns |-> columns,
        rows |-> [r \in 1..Len(rows) |->
                    [c \in 1..Len(columns) |->
                        IF HasKey(rows[r], columns[c]) THEN getitem(rows[r], columns[c])
                        ELSE NaN]]]

RECURSIVE normalise_json(_, _, _)

\* pandas _normalise_json: the leaves of nested dicts, keys joined by '.'
normalise_json(data, i, key_string) ==
    IF i > Len(data) THEN <<>>
    ELSE LET new_key == IF key_string = <<>> THEN data[i].k
                        ELSE key_string \o <<".">> \o data[i].k
         IN (IF data[i].v.tag = "dict" THEN normalise_json(data[i].v.kids, 1, new_key)
             ELSE <<Entry(new_key, data[i].v)>>)
            \o normalise_json(data, i + 1, key_string)

\* pd.json_normalize(series): each dict with its plain items first and the
\* flattened nested ones after; a missing cell counts as an empty dict
\* (skips) or raises AttributeError, by the version of pandas
json_normalize(series, skips) ==
    IF ~skips /\ \E r \in 1..Len(series) : series[r].tag # "dict"
    THEN Raise("AttributeError")
    ELSE Ok(DataFrame([r \in 1..Len(series) |->
               IF series[r].tag # "dict" THEN <<>>
               ELSE dict(SelectSeq(series[r].kids, LAMBDA e : e.v.tag # "dict")
                         \o normalise_json(
                                SelectSeq(series[r].kids, LAMBDA e : e.v.tag = "dict"),
                                1, <<>>),
                         1, <<>>)]))

\* df[name] = value: a new last column, or every column of that name replaced
set_column(df, name, value) ==
    IF \E c \in 1..Len(df.columns) : df.columns[c] = name
    THEN [df EXCEPT !.rows = [r \in 1..Len(df.rows) |->
                                [c \in 1..Len(df.columns) |->
                                    IF df.columns[c] = name THEN value
                                    ELSE df.rows[r][c]]]]
    ELSE [columns |-> Append(df.columns, name),
          rows |-> [r \in 1..Len(df.rows) |-> Append(df.rows[r], value)]]

\* pd.to_datetime(cell, errors='coerce') on the ISO texts of the model: a
\* Timestamp, or NaT for a text that is no date and for a missing cell
to_datetime(cell) ==
    LET parsed == IF cell.tag = "str" THEN fromisoformat(replace_Z(cell.s, 1))
                  ELSE Raise("ValueError")
    IN IF parsed.err = "" THEN parsed.val ELSE Mk("NaT", 0, <<>>, <<>>)

RECURSIVE datetime_columns(_, _)

\* for col in cols: if col in df.columns: df[col] = pd.to_datetime(df[col],
\* errors='coerce'); df[col] of a repeated label is a DataFrame, which
\* to_datetime rejects with ValueError
datetime_columns(df, cols) ==
    LET at == { c \in 1..Len(df.columns) : df.columns[c] = Head(cols) }
    IN IF cols = <<>> THEN Ok(df)
       ELSE IF at = {} THEN datetime_columns(df, Tail(cols))
       ELSE IF Cardinality(at) > 1 THEN Raise("ValueError")
       ELSE datetime_columns(
                [df EXCEPT !.rows = [r \in 1..Len(df.rows) |->
                    [c \in 1..Len(df.columns) |->
                        IF c \in at THEN to_datetime(df.rows[r][c]) ELSE df.rows[r][c]]]],
                Tail(cols))

\* _clean_fulcrum_fields: df.rename(columns=field_mappings), then the
\* timestamp columns
clean_fulcrum_fields(df) ==
    datetime_columns(
        [df EXCEPT !.columns = [c \in 1..Len(df.columns) |->
            get(field_mappings, df.columns[c], PyStr(df.columns[c])).s]],
        <<Names.created_at, Names.updated_at>>)

\* the time of the run, the text datetime.now().isoformat() gives
ProcessedAt == PyStr(T_Feb)

\* the frame returned and the message given to logger.warning; every
\* exception of the body is caught, logged as an error, and an empty frame
\* is returned
process_fulcrum_records(records, form_name, skips) ==
    LET empty == [columns |-> <<>>, rows |-> <<>>]
        df == DataFrame([r \in 1..Len(records) |-> records[r].kids])
        at == { c \in 1..Len(df.columns) : df.columns[c] = Names.form_values }
        fv == CHOOSE c \in at : TRUE
        form_values_df == json_normalize([r \in 1..Len(records) |-> df.rows[r][fv]], skips)
        keep == SelectSeq([c \in 1..Len(df.columns) |-> c], LAMBDA c : c \notin at)
        joined == IF at = {} THEN Ok(df)
                  ELSE IF form_values_df.err # "" THEN form_values_df
                  ELSE Ok([columns |-> [c \in 1..Len(keep) |-> df.columns[keep[c]]]
                                         \o form_values_df.val.columns,
                           rows |-> [r \in 1..Len(records) |->
                                       [c \in 1..Len(keep) |-> df.rows[r][keep[c]]]
                                         \o form_values_df.val.rows[r]]])
        cleaned == IF joined.err # "" THEN joined
                   ELSE clean_fulcrum_fields(joined.val)
    IN IF records = <<>>
       THEN [frame |-> empty,
             warned |-> <<PyStr(<<"N", "o", " ", "r", "e", "c", "o", "r", "d", "s",
                                  " ", "t", "o", " ", "p", "r", "o", "c", "e", "s",
                                  "s">>)>>]
       ELSE IF cleaned.err # "" THEN [frame |-> empty, warned |-> <<>>]
       ELSE [frame |-> set_column(set_column(set_column(cleaned.val,
                           Names.processed_at, ProcessedAt),
                           Names.form_name, form_name),
                           Names.record_count, PyInt(Len(records))),
             warned |-> <<>>]

(***************************************************************************)
(* Inputs of process_fulcrum_records                                       *)
(***************************************************************************)
\* largest number of records in a batch to normalize
MaxNormRecords == 2

\* a record: _status or not; _created_at missing, an ISO text or a text that
\* is no date; form_values missing, empty, or with a status, a created_at, a
\* nested status or a field n
NormRecords ==
    LET a == PyStr(<<"a">>)
        b == PyStr(<<"b">>)
    IN { PyDict(s \o c \o f) :
           s \in { <<>>, <<Entry(<<"_">> \o Names.status, a)>> },
           c \in { <<>> } \cup { <<Entry(<<"_">> \o Names.created_at, PyStr(x))>> :
                                  x \in { T_Jan, <<"a", "b">> } },
           f \in { <<>> } \cup
                 { <<Entry(Names.form_values, PyDict(e))>> :
                     e \in { <<>>,
                             <<Entry(Names.status, b)>>,
                             <<Entry(Names.created_at, PyStr(T_Feb))>>,
                             <<Entry(<<"g">>, PyDict(<<Entry(Names.status, b)>>))>>,
                             <<Entry(<<"n">>, PyInt(1))>> } } }

\* the batch label the caller gives
FormName == PyStr(<<"F">>)

(***************************************************************************)
(* The core stages on objects in memory.  A list or dict is an object with *)
(* an identity: heap.cells[a] is the object at address a, and an element   *)
(* that is itself a list or dict is held as a reference to its address.    *)
(* heap.root is the address of the list of records the caller passes; the  *)
(* objects in memory are the caller's.                                     *)
(***************************************************************************)
Ref(a) == Mk("ref", a, <<>>, <<>>)

\* the value a stage reads through a reference: the object with its elements
\* read in turn, each list and dict carrying its address in n
RECURSIVE deref(_, _)
deref(cells, v) ==
    IF v.tag # "ref" THEN v
    ELSE Mk(cells[v.n].tag, v.n, <<>>,
            [i \in 1..Len(cells[v.n].kids) |->
                Entry(cells[v.n].kids[i].k, deref(cells, cells[v.n].kids[i].v))])

\* a value put in memory: a list or dict that is not in memory yet (n = 0)
\* becomes a new object after the existing ones, its elements first; one
\* that is (n # 0) stays the object it was
RECURSIVE alloc(_, _)
alloc(cells, v) ==
    LET RECURSIVE elements(_, _, _)
        elements(h, i, acc) ==
            IF i > Len(v.kids) THEN [cells |-> h, kids |-> acc]
            ELSE LET a == alloc(h, v.kids[i].v)
                 IN elements(a.cells, i + 1, Append(acc, Entry(v.kids[i].k, a.ref)))
        e == elements(cells, 1, <<>>)
    IN IF v.tag \notin {"list", "dict"} THEN [cells |-> cells, ref |-> v]
       ELSE IF v.n # 0 THEN [cells |-> cells, ref |-> Ref(v.n)]
       ELSE [cells |-> Append(e.cells, Mk(v.tag, 0, <<>>, e.kids)),
             ref |-> Ref(Len(e.cells) + 1)]

\* what each stage returns on the records read from memory: flatten and
\* digest take the record at index arg, paginate takes arg as the page size.
\* A list or dict the stage constructed has n = 0, one it took from its
\* input carries its address
stage_result(stage, records, arg) ==
    LET new_list(s) == PyList([i \in 1..Len(s) |-> Item(s[i])])
        new_dict(r) == IF r.err # "" THEN r ELSE Ok(PyDict(r.val))
        records_of(r) == IF r.err # "" THEN r ELSE Ok(new_list(r.val))
        pages_of(r) == IF r.err # "" THEN r
                       ELSE Ok(new_list([p \in 1..Len(r.val) |-> new_list(r.val[p])]))
        RECURSIVE items(_)
        items(S) == IF S = {} THEN <<>>
                    ELSE LET x == CHOOSE x \in S : TRUE
                         IN <<x>> \o items(S \ {x})
        frame(df) ==
            Ok(new_list(<<new_list([c \in 1..Len(df.columns) |-> PyStr(df.columns[c])])>>
                        \o [r \in 1..Len(df.rows) |-> new_list(df.rows[r])]))
    IN CASE stage = "flatten" ->
              new_dict(flatten_nested_dict(records[arg], <<>>, <<"_">>))
         [] stage = "hash" -> Ok(PyStr(calculate_record_hash(records[arg])))
         [] stage = "merge" -> records_of(merge_records(records, K_id))
         [] stage = "paginate" -> pages_of(paginate_records(records, arg))
         [] stage = "mapping" ->
              Ok(PyDict(items(create_field_mapping(records, PyNone).val)))
         [] stage = "normalize" ->
              frame(process_fulcrum_records(records, FormName, arg = 1).frame)

\* a pagination that takes each page off the front of the list it is given
stage_call_in_place(h, stage, arg) ==
    LET records == deref(h.cells, Ref(h.root))
    IN [heap |-> IF stage = "paginate"
                 THEN [h EXCEPT !.cells[h.root].kids = <<>>]
                 ELSE h,
        out |-> stage_result(stage, [i \in 1..Len(records.kids) |-> records.kids[i].v],
                             arg)]

\* a call of a stage on the caller's list: the stage reads the objects and
\* builds its result, and assigns to no element of an object it was given
stage_call(h, stage, arg) ==
    LET records == deref(h.cells, Ref(h.root))
    IN [heap |-> h,
        out |-> stage_result(stage, [i \in 1..Len(records.kids) |-> records.kids[i].v],
                             arg)]

(***************************************************************************)
(* Inputs of the stages                                                    *)
(***************************************************************************)
\* largest number of records in the list the stages are called on
MaxStageRecords == 2

\* a record: an id or none, a time of update, form_values with a field or none
StageRecords ==
    { PyDict(i \o <<Entry(K_updated_at, PyStr(u))>> \o f) :
        i \in { <<>>, <<Entry(K_id, PyStr(<<"1">>))>>, <<Entry(K_id, PyStr(<<"2">>))>> },
        u \in { T_Jan, T_Feb },
        f \in { <<>>, <<Entry(Names.form_values,
                              PyDict(<<Entry(<<"n">>, PyInt(1))>>))>> } }

(***************************************************************************)
(* The caller: holds the arguments, makes the call, takes the result       *)
(***************************************************************************)
NotCalled ==
    /\ pc = "idle"
    /\ flat_out = NoCall
    /\ hash_str = <<>>
    /\ hash_out = <<>>
    /\ merge_out = NoCall
    /\ page_out = NoCall
    /\ map_out = NoCall
    /\ warnings = <<>>
    /\ date_out = NoCall
    /\ norm_out = NoCall
    /\ csv_out = NoCall
    /\ stage_out = NoCall

\* the arguments of the calls a specification does not make
NoFlattenArgs == flat_data = PyDict(<<>>) /\ flat_sep = <<"_">>

NoHashArgs == hash_record = PyDict(<<>>)

NoMergeArgs == merge_in = <<>>

NoPaginateArgs == page_in = <<>> /\ page_by = 1

NoMappingArgs == map_records = <<>> /\ map_custom = PyNone

NoUtilityArgs ==
    NoFlattenArgs /\ NoHashArgs /\ NoMergeArgs /\ NoPaginateArgs /\ NoMappingArgs

\* the arguments and the objects of the calls other than those in used: no
\* date text, no batch, no file, no objects, no package, no client
Unused(used) ==
    /\ "date" \in used \/ date_in = <<>>
    /\ "normalize" \in used \/ norm_in = <<>>
    /\ "csv" \in used \/ (csv_in = <<>> /\ csv_map = PyNone)
    /\ "stage" \in used \/ heap = <<>>
    /\ "package" \in used \/ package = <<>>
    /\ "client" \in used \/ client = <<>>

\* nothing but the record utilities is in use
OnlyUtilities == Unused({})

InitFlatten ==
    /\ NotCalled
    /\ flat_data \in FlatInputs(MaxFlatSize)
    /\ flat_sep \in Separators
    /\ NoHashArgs /\ NoMergeArgs /\ NoPaginateArgs /\ NoMappingArgs
    /\ OnlyUtilities

InitHash ==
    /\ NotCalled
    /\ hash_record \in HashInputs(MaxHashSize)
    /\ NoFlattenArgs /\ NoMergeArgs /\ NoPaginateArgs /\ NoMappingArgs
    /\ OnlyUtilities

InitMerge ==
    /\ NotCalled
    /\ \E m \in 0..MaxMerge : \E f \in MergeChoices(m) : merge_in = MergeBatch(f)
    /\ NoFlattenArgs /\ NoHashArgs /\ NoPaginateArgs /\ NoMappingArgs
    /\ OnlyUtilities

InitPaginate ==
    /\ NotCalled
    /\ \/ page_in \in PageInputs(MaxPageLen) /\ page_by \in (0 - MaxPageSize)..MaxPageSize
       \/ page_in = ExampleRange /\ page_by = 100
    /\ NoFlattenArgs /\ NoHashArgs /\ NoMergeArgs /\ NoMappingArgs
    /\ OnlyUtilities

InitMapping ==
    /\ NotCalled
    /\ map_records \in MapRecordInputs(MaxMapRecords)
    /\ map_custom \in CustomNameInputs
    /\ NoFlattenArgs /\ NoHashArgs /\ NoMergeArgs /\ NoPaginateArgs
    /\ OnlyUtilities

\* FulcrumUtilities.flatten_nested_dict(flat_data, sep=flat_sep)
Flatten ==
    /\ pc = "idle"
    /\ flat_out' = flatten_nested_dict(flat_data, <<>>, flat_sep)
    /\ pc' = "flatten"
    /\ UNCHANGED <<args, hash_str, hash_out, merge_out, page_out, map_out, warnings, later>>

\* FulcrumUtilities.calculate_record_hash(hash_record)
Hash ==
    /\ pc = "idle"
    /\ hash_str' = dumps(hash_record)
    /\ hash_out' = calculate_record_hash(hash_record)
    /\ pc' = "hash"
    /\ UNCHANGED <<args, flat_out, merge_out, page_out, map_out, warnings, later>>

\* FulcrumUtilities.merge_records(merge_in), merge_key left at 'id'; the
\* function gives nothing to the logger
Merge ==
    /\ pc = "idle"
    /\ merge_out' = merge_records(merge_in, K_id)
    /\ pc' = "merge"
    /\ UNCHANGED <<args, flat_out, hash_str, hash_out, page_out, map_out, warnings, later>>

\* FulcrumUtilities.paginate_records(page_in, page_by)
Paginate ==
    /\ pc = "idle"
    /\ page_out' = paginate_records(page_in, page_by)
    /\ pc' = "paginate"
    /\ UNCHANGED <<args, flat_out, hash_str, hash_out, merge_out, map_out, warnings, later>>

\* FulcrumUtilities.create_field_mapping(map_records, map_custom)
Mapping ==
    /\ pc = "idle"
    /\ map_out' = create_field_mapping(map_records, map_custom)
    /\ pc' = "mapping"
    /\ UNCHANGED <<args, flat_out, hash_str, hash_out, merge_out, page_out, warnings, later>>

\* the caller drops the result; the arguments are as they were
Return ==
    /\ pc # "idle"
    /\ pc' = "idle"
    /\ flat_out' = NoCall
    /\ hash_str' = <<>>
    /\ hash_out' = <<>>
    /\ merge_out' = NoCall
    /\ page_out' = NoCall
    /\ map_out' = NoCall
    /\ date_out' = NoCall
    /\ norm_out' = NoCall
    /\ csv_out' = NoCall
    /\ stage_out' = NoCall
    /\ UNCHANGED <<args, warnings, heap, package, client>>

NextFlatten == Flatten \/ Return

SpecFlatten == InitFlatten /\ [][NextFlatten]_vars

NextHash == Hash \/ Return

SpecHash == InitHash /\ [][NextHash]_vars

NextMerge == Merge \/ Return

SpecMerge == InitMerge /\ [][NextMerge]_vars

NextPaginate == Paginate \/ Return

SpecPaginate == InitPaginate /\ [][NextPaginate]_vars

NextMapping == Mapping \/ Return

SpecMapping == InitMapping /\ [][NextMapping]_vars

(***************************************************************************)
(* The caller of export_records_to_csv                                     *)
(***************************************************************************)
InitCsv ==
    /\ NotCalled
    /\ \E m \in 0..MaxCsvRecords : csv_in \in [1..m -> CsvRecords]
    /\ csv_map \in CsvMappings
    /\ NoUtilityArgs
    /\ Unused({"csv"})

\* FulcrumUtilities.export_records_to_csv(csv_in, Filename, csv_map)
ExportCsv ==
    /\ pc = "idle"
    /\ \E can_open \in BOOLEAN :
           LET r == export_records_to_csv(csv_in, Filename, csv_map, can_open)
           IN /\ csv_out' = Ok([path |-> r.path, file |-> r.file])
              /\ warnings' = r.warned
    /\ pc' = "csv"
    /\ UNCHANGED <<args, flat_out, hash_str, hash_out, merge_out, page_out, map_out,
                   date_out, norm_out, heap, stage_out, package, client>>

NextCsv == ExportCsv \/ Return

SpecCsv == InitCsv /\ [][NextCsv]_vars

(***************************************************************************)
(* The user of a FulcrumAPIClient: any operations in any order, with time  *)
(* passing between them                                                    *)
(***************************************************************************)
InitClient ==
    /\ NotCalled
    /\ \E now \in rate_limit_delay..MaxTime : client = new_client(now)
    /\ NoUtilityArgs
    /\ Unused({"client"})

\* get_forms, get_records, create_record, ... get_account_info: each one is
\* self._make_request(method, endpoint), which raises or returns after the
\* request was sent
MakeRequest ==
    /\ Len(client.sent) < MaxRequests
    /\ \E late \in 0..1 :
           /\ rate_limit(client, late).now <= MaxTime
           /\ client' = session_request(rate_limit(client, late), "request")
    /\ UNCHANGED <<pc, args, outs, date_out, norm_out, csv_out, heap, stage_out, package>>

\* client.download_photo(photo_id)
DownloadPhoto ==
    /\ Len(client.sent) < MaxRequests
    /\ client' = session_request(client, "download_photo")
    /\ UNCHANGED <<pc, args, outs, date_out, norm_out, csv_out, heap, stage_out, package>>

\* client.upload_photo(file_path), the file being there to open
UploadPhoto ==
    /\ Len(client.sent) < MaxRequests
    /\ client' = session_request(client, "upload_photo")
    /\ UNCHANGED <<pc, args, outs, date_out, norm_out, csv_out, heap, stage_out, package>>

\* time passes
Tick ==
    /\ client.now < MaxTime
    /\ client' = [client EXCEPT !.now = client.now + 1]
    /\ UNCHANGED <<pc, args, outs, date_out, norm_out, csv_out, heap, stage_out, package>>

NextClient == MakeRequest \/ DownloadPhoto \/ UploadPhoto \/ Tick

SpecClient == InitClient /\ [][NextClient]_vars

(***************************************************************************)
(* One call of create_data_package                                         *)
(***************************************************************************)
InitPackage ==
    /\ NotCalled
    /\ \E include_photos \in BOOLEAN : package = new_package(include_photos)
    /\ NoUtilityArgs
    /\ Unused({"package"})

\* package_path.mkdir(exist_ok=True), line 310
MakeDir ==
    /\ package.at = "mkdir"
    /\ \E ok \in BOOLEAN :
           package' = IF ok THEN [package EXCEPT !.at = "export", !.dir = "exists"]
                      ELSE except(package)
    /\ UNCHANGED <<pc, args, outs, date_out, norm_out, csv_out, heap, stage_out, client>>

\* the next of the export calls, lines 313-318
ExportTarget ==
    /\ package.at = "export"
    /\ \E ok \in BOOLEAN :
           LET target == Targets[Cardinality(DOMAIN package.exports) + 1]
               p == export(package, target, ok)
           IN package' = IF p.at = "export" /\ DOMAIN p.exports = { Targets[i] : i \in 1..Len(Targets) }
                         THEN [p EXCEPT !.at = "photos"]
                         ELSE p
    /\ UNCHANGED <<pc, args, outs, date_out, norm_out, csv_out, heap, stage_out, client>>

\* lines 321-327: download_photos returns "" or a directory, whose copy into
\* the package may raise
CopyPhotos ==
    /\ package.at = "photos"
    /\ \E ok \in BOOLEAN :
           package' = IF ~package.include_photos \/ ok
                      THEN [package EXCEPT !.at = "info"]
                      ELSE except(package)
    /\ UNCHANGED <<pc, args, outs, date_out, norm_out, csv_out, heap, stage_out, client>>

\* lines 330-345: package_info.json is written
WriteInfo ==
    /\ package.at = "info"
    /\ \E ok \in BOOLEAN :
           package' = IF ok THEN [package EXCEPT !.at = "zip"] ELSE except(package)
    /\ UNCHANGED <<pc, args, outs, date_out, norm_out, csv_out, heap, stage_out, client>>

\* lines 347-352: the archive is written whole, or the write raises after the
\* file was created
BuildZip ==
    /\ package.at = "zip"
    /\ \E ok \in BOOLEAN :
           package' = IF ok THEN [package EXCEPT !.at = "rmtree", !.zip = "complete"]
                      ELSE except([package EXCEPT !.zip = "partial"])
    /\ UNCHANGED <<pc, args, outs, date_out, norm_out, csv_out, heap, stage_out, client>>

\* lines 355-358: shutil.rmtree(package_path), return str(zip_path)
RemoveDir ==
    /\ package.at = "rmtree"
    /\ \E ok \in BOOLEAN :
           package' = IF ok THEN [package EXCEPT !.at = "done", !.dir = "removed",
                                                !.returned = "zip_path"]
                      ELSE except(package)
    /\ UNCHANGED <<pc, args, outs, date_out, norm_out, csv_out, heap, stage_out, client>>

NextPackage ==
    MakeDir \/ ExportTarget \/ CopyPhotos \/ WriteInfo \/ BuildZip \/ RemoveDir

SpecPackage == InitPackage /\ [][NextPackage]_vars

(***************************************************************************)
(* The caller of process_fulcrum_records                                   *)
(***************************************************************************)
InitNormalize ==
    /\ NotCalled
    /\ \E m \in 0..MaxNormRecords : norm_in \in [1..m -> NormRecords]
    /\ NoUtilityArgs
    /\ Unused({"normalize"})

\* FulcrumDataProcessor.process_fulcrum_records(norm_in, FormName)
Normalize ==
    /\ pc = "idle"
    /\ \E skips \in BOOLEAN :
           LET r == process_fulcrum_records(norm_in, FormName, skips)
           IN /\ norm_out' = Ok(r.frame)
              /\ warnings' = r.warned
    /\ pc' = "normalize"
    /\ UNCHANGED <<args, flat_out, hash_str, hash_out, merge_out, page_out, map_out,
                   date_out, csv_out, heap, stage_out, package, client>>

NextNormalize == Normalize \/ Return

SpecNormalize == InitNormalize /\ [][NextNormalize]_vars

(***************************************************************************)
(* The caller of parse_fulcrum_date                                        *)
(***************************************************************************)
InitDate ==
    /\ NotCalled
    /\ date_in \in DateInputs(MaxDateLen)
    /\ NoUtilityArgs
    /\ Unused({"date"})

\* FulcrumUtilities.parse_fulcrum_date(date_in); warnings holds what the call
\* gave to logger.warning
ParseDate ==
    /\ pc = "idle"
    /\ date_out' = parse_fulcrum_date(date_in).out
    /\ warnings' = parse_fulcrum_date(date_in).warned
    /\ pc' = "date"
    /\ UNCHANGED <<args, flat_out, hash_str, hash_out, merge_out, page_out, map_out,
                   norm_out, csv_out, heap, stage_out, package, client>>

NextDate == ParseDate \/ Return

SpecDate == InitDate /\ [][NextDate]_vars

(***************************************************************************)
(* The caller of the stages: holds one list of records in memory and calls *)
(* the stages on it, one after another                                     *)
(***************************************************************************)
InitStages ==
    /\ NotCalled
    /\ \E m \in 0..MaxStageRecords : \E f \in [1..m -> StageRecords] :
           LET a == alloc(<<>>, PyList([i \in 1..m |-> Item(f[i])]))
           IN heap = [cells |-> a.cells, root |-> a.ref.n]
    /\ NoUtilityArgs
    /\ Unused({"stage"})

\* FulcrumUtilities.flatten_nested_dict(records[i])
FlattenStage ==
    /\ pc = "idle"
    /\ \E i \in 1..Len(heap.cells[heap.root].kids) :
           \E r \in {stage_call(heap, "flatten", i)} :
               heap' = r.heap /\ stage_out' = r.out
    /\ pc' = "stage"
    /\ UNCHANGED <<args, outs, date_out, norm_out, csv_out, package, client>>

\* FulcrumUtilities.calculate_record_hash(records[i])
HashStage ==
    /\ pc = "idle"
    /\ \E i \in 1..Len(heap.cells[heap.root].kids) :
           \E r \in {stage_call(heap, "hash", i)} :
               heap' = r.heap /\ stage_out' = r.out
    /\ pc' = "stage"
    /\ UNCHANGED <<args, outs, date_out, norm_out, csv_out, package, client>>

\* FulcrumUtilities.merge_records(records)
MergeStage ==
    /\ pc = "idle"
    /\ \E r \in {stage_call(heap, "merge", 0)} :
           heap' = r.heap /\ stage_out' = r.out
    /\ pc' = "stage"
    /\ UNCHANGED <<args, outs, date_out, norm_out, csv_out, package, client>>

\* FulcrumUtilities.paginate_records(records, page_size)
PaginateStage ==
    /\ pc = "idle"
    /\ \E page_size \in 1..MaxStageRecords :
           \E r \in {stage_call(heap, "paginate", page_size)} :
               heap' = r.heap /\ stage_out' = r.out
    /\ pc' = "stage"
    /\ UNCHANGED <<args, outs, date_out, norm_out, csv_out, package, client>>

\* FulcrumUtilities.create_field_mapping(records)
MappingStage ==
    /\ pc = "idle"
    /\ \E r \in {stage_call(heap, "mapping", 0)} :
           heap' = r.heap /\ stage_out' = r.out
    /\ pc' = "stage"
    /\ UNCHANGED <<args, outs, date_out, norm_out, csv_out, package, client>>

\* FulcrumDataProcessor.process_fulcrum_records(records, FormName), under
\* either behaviour of json_normalize on a missing cell
NormalizeStage ==
    /\ pc = "idle"
    /\ \E skips \in 0..1 :
           \E r \in {stage_call(heap, "normalize", skips)} :
               heap' = r.heap /\ stage_out' = r.out
    /\ pc' = "stage"
    /\ UNCHANGED <<args, outs, date_out, norm_out, csv_out, package, client>>

NextStages ==
    \/ FlattenStage \/ HashStage \/ MergeStage \/ PaginateStage
    \/ MappingStage \/ NormalizeStage \/ Return

SpecStages == InitStages /\ [][NextStages]_vars

(***************************************************************************)
(* The flatten contract, as a reference to state the claims against:       *)
(* the leaves of a container in document order, each with its path key     *)
(* (segments joined by sep, a sequence index as its decimal digits) and    *)
(* whether the path went through a sequence                                *)
(***************************************************************************)
RECURSIVE PathLeaves(_, _, _, _, _)

PathLeaves(v, i, prefix, sep, seq) ==
    IF i > Len(v.kids) THEN <<>>
    ELSE LET seg == IF v.tag = "list" THEN str(i - 1) ELSE v.kids[i].k
             key == IF prefix # <<>> THEN prefix \o sep \o seg ELSE seg
             w == v.kids[i].v
             s == seq \/ v.tag = "list"
         IN (IF IsScalar(w) THEN << [k |-> key, v |-> w, seq |-> s] >>
             ELSE PathLeaves(w, 1, key, sep, s))
            \o PathLeaves(v, i + 1, prefix, sep, seq)

\* the leaves of the input of the call; an input nested deeper than maxDepth
\* has none, the contract makes the call fail
Leaves ==
    IF Depth(flat_data) > maxDepth THEN <<>>
    ELSE PathLeaves(flat_data, 1, <<>>, flat_sep, FALSE)

Returned == pc = "flatten" /\ flat_out.err = ""

OutHas(k) == Returned /\ HasKey(flat_out.val, k)

\* v is, or holds at some depth, an empty sequence or an empty mapping
HasEmpty(v) ==
    /\ ~IsScalar(v)
    /\ \E c \in Containers(<<{v}, {}>>) : c.kids = <<>>

\* C1: after a flatten call, every leaf reached through nested mappings only
\* is in the returned mapping under its segments joined by the separator.
C1_NestedMappingKeys ==
    pc = "flatten" =>
        \A j \in 1..Len(Leaves) : ~Leaves[j].seq => OutHas(Leaves[j].k)

\* C2: after a flatten call with any separator, every leaf reached through a
\* sequence is in the returned mapping under parent + separator + index,
\* recursively through mappings and sequences below the sequence.
C2_SequenceKeys ==
    pc = "flatten" =>
        \A j \in 1..Len(Leaves) : Leaves[j].seq => OutHas(Leaves[j].k)

\* C3: every value of a returned flat mapping is a scalar, and every scalar
\* leaf of the input is a value of the output.
C3_OnlyScalars ==
    Returned =>
        /\ \A i \in 1..Len(flat_out.val) : IsScalar(flat_out.val[i].v)
        /\ \A j \in 1..Len(Leaves) :
              \E i \in 1..Len(flat_out.val) : flat_out.val[i].v = Leaves[j].v

\* C4: a flatten call on an input nested deeper than maxDepth fails with
\* DepthExceeded.
C4_DepthExceeded ==
    (pc = "flatten" /\ Depth(flat_data) > maxDepth) =>
        flat_out.err = "DepthExceeded"

Collides == \E i, j \in 1..Len(Leaves) : i < j /\ Leaves[i].k = Leaves[j].k

LastWith(k) ==
    CHOOSE j \in 1..Len(Leaves) :
        /\ Leaves[j].k = k
        /\ \A m \in (j + 1)..Len(Leaves) : Leaves[m].k # k

\* C5: when two paths of the input give the same flat key, flatten raises no
\* error, the key is in the result once, and its value is that of the last
\* such path in document order.
C5_LastWriteWins ==
    (pc = "flatten" /\ Collides) =>
        /\ flat_out.err = ""
        /\ \A j \in 1..Len(Leaves) :
              /\ Cardinality({i \in 1..Len(flat_out.val) :
                                 flat_out.val[i].k = Leaves[j].k}) = 1
              /\ \A i \in 1..Len(flat_out.val) :
                    flat_out.val[i].k = Leaves[j].k =>
                        flat_out.val[i].v = Leaves[LastWith(Leaves[j].k)].v

\* C6: an empty sequence or empty mapping, at any depth of the input,
\* contributes no key: the call returns and every key of the result comes
\* from a scalar leaf of the input.
C6_EmptyContributesNothing ==
    (pc = "flatten" /\ HasEmpty(flat_data)) =>
        /\ flat_out.err = ""
        /\ Len(flat_out.val) <= Len(Leaves)
        /\ \A i \in 1..Len(flat_out.val) : IsScalar(flat_out.val[i].v)

(***************************************************************************)
(* Records related to the hashed record, to state the digest claims        *)
(***************************************************************************)
RECURSIVE Product(_, _)

\* the sequences x of length Len(sets) - i + 1 with x[j] in sets[i + j - 1]
Product(sets, i) ==
    IF i > Len(sets) THEN { <<>> }
    ELSE { <<x>> \o rest : x \in sets[i], rest \in Product(sets, i + 1) }

Orders(n) == { p \in [1..n -> 1..n] : \A i, j \in 1..n : p[i] = p[j] => i = j }

WithKid(v, i, w) ==
    Mk(v.tag, v.n, v.s, [j \in 1..Len(v.kids) |->
                            IF j = i THEN Entry(v.kids[j].k, w) ELSE v.kids[j]])

RECURSIVE KeyOrders(_)

\* the same content with the keys of every mapping in any insertion order
KeyOrders(v) ==
    IF IsScalar(v) THEN {v}
    ELSE UNION { { Mk(v.tag, v.n, v.s, x) :
                     x \in Product([i \in 1..Len(v.kids) |->
                              { Entry(v.kids[p[i]].k, w) :
                                  w \in KeyOrders(v.kids[p[i]].v) }], 1) }
                 : p \in IF v.tag = "dict" THEN Orders(Len(v.kids))
                         ELSE { [i \in 1..Len(v.kids) |-> i] } }

RECURSIVE NumEquivs(_)

\* the same content with every number as an integer or as a float
NumEquivs(v) ==
    IF v.tag \in {"int", "float"} THEN { PyInt(v.n), PyFloat(v.n) }
    ELSE IF IsScalar(v) THEN {v}
    ELSE { Mk(v.tag, v.n, v.s, x) :
             x \in Product([i \in 1..Len(v.kids) |->
                      { Entry(v.kids[i].k, w) : w \in NumEquivs(v.kids[i].v) }], 1) }

\* the variant of the Value type a scalar belongs to
Kind(v) == IF v.tag \in {"int", "float"} THEN "number" ELSE v.tag

RECURSIVE Paths(_)

\* the places of a value below its root, each a sequence of child indices
Paths(v) ==
    IF IsScalar(v) THEN {}
    ELSE UNION { { <<i>> } \cup { <<i>> \o p : p \in Paths(v.kids[i].v) }
                 : i \in 1..Len(v.kids) }

RECURSIVE At(_, _, _), ReplaceAt(_, _, _, _)

At(v, p, i) == IF i > Len(p) THEN v ELSE At(v.kids[p[i]].v, p, i + 1)

ReplaceAt(v, p, i, w) ==
    IF i > Len(p) THEN w
    ELSE WithKid(v, p[i], ReplaceAt(v.kids[p[i]].v, p, i + 1, w))

RECURSIVE SameContent(_, _)

\* equal as content: numbers by value, mappings whatever the key order
SameContent(v, w) ==
    IF IsScalar(v) \/ IsScalar(w)
    THEN Kind(v) = Kind(w) /\ v.n = w.n /\ v.s = w.s
    ELSE /\ v.tag = w.tag
         /\ Len(v.kids) = Len(w.kids)
         /\ IF v.tag = "list"
            THEN \A i \in 1..Len(v.kids) : SameContent(v.kids[i].v, w.kids[i].v)
            ELSE \A i \in 1..Len(v.kids) : \E j \in 1..Len(w.kids) :
                    /\ v.kids[i].k = w.kids[j].k
                    /\ SameContent(v.kids[i].v, w.kids[j].v)

\* the values a field is changed to
Replacements ==
    ValuesOfSize(1, HashScalars, HashKeys) \cup ValuesOfSize(2, HashScalars, HashKeys)

\* the sequence v with its elements in every order
Reorderings(v) ==
    IF v.tag # "list" THEN {}
    ELSE { PyList([i \in 1..Len(v.kids) |-> v.kids[p[i]]]) :
             p \in Orders(Len(v.kids)) }

\* r differs from hash_record in the value of one field
Changed(r) == ~SameContent(hash_record, r)

\* C7: the digest of a record is the digest of every record with the same
\* content whose mappings, at any depth, have their keys in another order.
C7_KeyOrderInvariant ==
    pc = "hash" =>
        \A r \in KeyOrders(hash_record) : calculate_record_hash(r) = hash_out

C7_Witness ==
    /\ pc = "hash"
    /\ \E i \in 1..Len(hash_record.kids) :
          LET v == hash_record.kids[i].v
          IN /\ v.tag = "dict"
             /\ Len(v.kids) = 2
             /\ StrLess(v.kids[2].k, v.kids[1].k, 1)

\* C8: the digest of a record is the digest of every record that differs
\* from it only in writing an equal number as an integer or as a float.
C8_NumberRepresentation ==
    pc = "hash" =>
        \A r \in NumEquivs(hash_record) : calculate_record_hash(r) = hash_out

\* C9: a record and the record with one scalar replaced by a scalar of
\* another type (Null, Boolean, Number, String) never have the same
\* canonical encoding.
C9_TypesNeverCollide ==
    pc = "hash" =>
        \A p \in Paths(hash_record), w \in HashScalars :
            LET old == At(hash_record, p, 1)
            IN (IsScalar(old) /\ Kind(w) # Kind(old)) =>
                  dumps(ReplaceAt(hash_record, p, 1, w)) # hash_str

C9_Witness ==
    /\ pc = "hash"
    /\ \E i, j \in 1..Len(hash_record.kids) :
          /\ hash_record.kids[i].v = PyStr(<<"1">>)
          /\ hash_record.kids[j].v = PyStr(<<"n", "u", "l", "l">>)

\* C10: a record and a record that differs from it in the value of exactly
\* one field, at any depth or by the order of a sequence, have different
\* digests (and so different canonical encodings).
C10_ChangeChangesDigest ==
    pc = "hash" =>
        \A p \in Paths(hash_record) :
            \A w \in Replacements \cup Reorderings(At(hash_record, p, 1)) :
                LET r == ReplaceAt(hash_record, p, 1, w)
                IN Changed(r) => calculate_record_hash(r) # hash_out

C10_Witness ==
    /\ pc = "hash"
    /\ \E i \in 1..Len(hash_record.kids) :
          LET v == hash_record.kids[i].v
          IN /\ v.tag = "list"
             /\ Len(v.kids) = 2
             /\ v.kids[1] # v.kids[2]

(***************************************************************************)
(* The merge contract, as a reference to state the claims against:         *)
(* an _updated_at text read as a timestamp, either epoch milliseconds      *)
(* (digits only) or ISO-8601 YYYY-MM-DDTHH:MM:SSZ; the value is the pair   *)
(* <<seconds since the epoch, milliseconds>>                               *)
(***************************************************************************)
Digit(c) == (CHOOSE i \in 1..Len(DigitChars) : DigitChars[i] = c) - 1

IsDigits(s) ==
    s # <<>> /\ \A i \in 1..Len(s) : \E d \in 1..Len(DigitChars) : DigitChars[d] = s[i]

RECURSIVE Num(_)

Num(s) == IF s = <<>> THEN 0 ELSE 10 * Num(SubSeq(s, 1, Len(s) - 1)) + Digit(s[Len(s)])

\* days from 1970-01-01 to the civil date y-m-d
DaysFromCivil(y, m, d) ==
    LET yy == IF m <= 2 THEN y - 1 ELSE y
        era == yy \div 400
        yoe == yy - era * 400
        mp == (m + 9) % 12
        doy == (153 * mp + 2) \div 5 + d - 1
        doe == yoe * 365 + yoe \div 4 - yoe \div 100 + doy
    IN era * 146097 + doe - 719468

IsIso(s) ==
    /\ Len(s) = 20
    /\ s[5] = "-" /\ s[8] = "-" /\ s[11] = "T" /\ s[14] = ":" /\ s[17] = ":"
    /\ s[20] = "Z"
    /\ \A i \in {1, 2, 3, 4, 6, 7, 9, 10, 12, 13, 15, 16, 18, 19} : IsDigits(<<s[i]>>)

NoTimestamp == <<0 - 1, 0>>

TimestampValue(s) ==
    IF IsDigits(s)
    THEN IF Len(s) > 3
         THEN <<Num(SubSeq(s, 1, Len(s) - 3)), Num(SubSeq(s, Len(s) - 2, Len(s)))>>
         ELSE <<0, Num(s)>>
    ELSE IF IsIso(s)
    THEN << DaysFromCivil(Num(SubSeq(s, 1, 4)), Num(SubSeq(s, 6, 7)),
                          Num(SubSeq(s, 9, 10))) * 86400
            + Num(SubSeq(s, 12, 13)) * 3600 + Num(SubSeq(s, 15, 16)) * 60
            + Num(SubSeq(s, 18, 19)), 0 >>
    ELSE NoTimestamp

\* the timestamp of a record; a record without one is older than any other
Timestamp(record) ==
    LET u == get(record, K_updated_at, PyNone)
    IN IF u.tag = "str" THEN TimestampValue(u.s) ELSE NoTimestamp

NotAfter(a, b) == a[1] < b[1] \/ (a[1] = b[1] /\ a[2] <= b[2])

MergeReturned == pc = "merge" /\ merge_out.err = ""

Identity(record) == get(record, K_id, PyNone)

\* the positions of the input records with the identity of record
Group(record) ==
    { i \in 1..Len(merge_in) :
        /\ HasKey(merge_in[i].kids, K_id)
        /\ Identity(merge_in[i]) = Identity(record) }

\* the members of the group of record with the greatest timestamp
Latest(record) ==
    { i \in Group(record) :
        \A j \in Group(record) : NotAfter(Timestamp(merge_in[j]), Timestamp(merge_in[i])) }

Least(S) == CHOOSE i \in S : \A j \in S : i <= j

Greatest(S) == CHOOSE i \in S : \A j \in S : j <= i

\* C11: every record that merge returns carries the greatest timestamp of
\* the input records with its identity, the _updated_at texts being read as
\* timestamps (ISO-8601 or epoch milliseconds).
C11_MaxParsedTimestamp ==
    MergeReturned =>
        \A k \in 1..Len(merge_out.val) :
            \A i \in Group(merge_out.val[k]) :
                NotAfter(Timestamp(merge_in[i]), Timestamp(merge_out.val[k]))

UpdatedText(record) == get(record, K_updated_at, PyStr(<<>>)).s

\* the members of the group of record whose _updated_at text is the greatest
\* in the order of Python strings, a missing one counting as ''
GreatestText(record) ==
    { i \in Group(record) :
        \A j \in Group(record) :
            ~StrLess(UpdatedText(merge_in[i]), UpdatedText(merge_in[j]), 1) }

InOutput(record) == \E k \in 1..Len(merge_out.val) : merge_out.val[k] = record

Warned(record) == \E w \in 1..Len(warnings) : warnings[w] = record

\* C13: merge does not fail; a record without the identity field is left out
\* of the result and is reported in the warnings; a record with the field,
\* whatever its value, has its identity in the result.
C13_MissingIdentityReported ==
    pc = "merge" =>
        /\ merge_out.err = ""
        /\ \A i \in 1..Len(merge_in) :
              IF HasKey(merge_in[i].kids, K_id)
              THEN \E k \in 1..Len(merge_out.val) :
                      Identity(merge_out.val[k]) = Identity(merge_in[i])
              ELSE ~InOutput(merge_in[i]) /\ Warned(merge_in[i])

\* C14: the identities of the result are pairwise distinct and stand in the
\* order of their first occurrence in the input.
C14_FirstSeenOrder ==
    MergeReturned =>
        \A a, b \in 1..Len(merge_out.val) :
            a < b => Least(Group(merge_out.val[a])) < Least(Group(merge_out.val[b]))

C14_Witness ==
    /\ MergeReturned
    /\ Len(merge_in) >= 3
    /\ Len(merge_out.val) = 2
    /\ merge_out.val[1] = merge_in[3]
    /\ merge_out.val[2] = merge_in[2]

(***************************************************************************)
(* Claims on paginate_records                                              *)
(***************************************************************************)
\* C15: with a page size below 1, zero or negative, the call fails with
\* InvalidConfiguration and returns no pages.
C15_InvalidConfiguration ==
    (pc = "paginate" /\ page_by < 1) => page_out.err = "InvalidConfiguration"

RECURSIVE Concat(_)

Concat(pages) == IF pages = <<>> THEN <<>> ELSE Head(pages) \o Concat(Tail(pages))

\* C16: with a page size of at least 1, the pages joined in order are the
\* input sequence.
C16_ConcatenationIsInput ==
    (pc = "paginate" /\ page_by >= 1) =>
        page_out.err = "" /\ Concat(page_out.val) = page_in

C16_Witness ==
    /\ pc = "paginate"
    /\ page_by >= 2
    /\ page_out.err = ""
    /\ Len(page_out.val) >= 2
    /\ Len(page_out.val[Len(page_out.val)]) < page_by

PageLens == [k \in 1..Len(page_out.val) |-> Len(page_out.val[k])]

\* C17: for a non-empty input and a page size of at least 1, every page but
\* the last has exactly page size elements, the last has between 1 and page
\* size, the number of pages is ceil(len / page size), and 250 elements by
\* 100 give pages of 100, 100 and 50.
C17_PageSizes ==
    (pc = "paginate" /\ page_by >= 1 /\ page_in # <<>>) =>
        /\ page_out.err = ""
        /\ Len(page_out.val) = (Len(page_in) + page_by - 1) \div page_by
        /\ \A k \in 1..(Len(page_out.val) - 1) : PageLens[k] = page_by
        /\ PageLens[Len(page_out.val)] \in 1..page_by
        /\ (page_in = ExampleRange /\ page_by = 100) => PageLens = <<100, 100, 50>>

C17_Witness ==
    /\ pc = "paginate"
    /\ page_in = ExampleRange
    /\ page_out.err = ""
    /\ Len(page_out.val) = 3

\* C18: with a page size of at least 1, an empty input gives no pages at
\* all, and no page of any result is empty.
C18_NoEmptyPage ==
    (pc = "paginate" /\ page_by >= 1) =>
        /\ page_out.err = ""
        /\ page_in = <<>> => page_out.val = <<>>
        /\ \A k \in 1..Len(page_out.val) : page_out.val[k] # <<>>

C18_Witness ==
    /\ pc = "paginate"
    /\ page_by >= 1
    /\ page_in = <<>>
    /\ page_out = Ok(<<>>)

(***************************************************************************)
(* Claims on create_field_mapping                                          *)
(***************************************************************************)
\* the field names of the records a mapping is built from
FieldNames ==
    { f \in { MapFields[i] : i \in 1..Len(MapFields) } :
        \E i \in 1..Len(map_records) : HasKey(map_records[i].kids, f) }

MappedTo(field) == { e.v : e \in { x \in map_out.val : x.k = field } }

\* C19: with no overrides, the keys of the mapping are the field names of
\* the records; a name that begins with an underscore maps to the name
\* without that one underscore and any other name maps to itself.
C19_DefaultRule ==
    (pc = "mapping" /\ map_custom \in {PyNone, PyDict(<<>>)}) =>
        /\ map_out.err = ""
        /\ { e.k : e \in map_out.val } = FieldNames
        /\ \A f \in FieldNames :
              MappedTo(f) = { PyStr(IF Head(f) = "_" THEN Tail(f) ELSE f) }

C19_Witness ==
    /\ pc = "mapping"
    /\ map_custom = PyNone
    /\ MappedTo(<<"_", "_", "s">>) = { PyStr(<<"_", "s">>) }
    /\ MappedTo(<<"s">>) = { PyStr(<<"s">>) }

\* the overrides as a set of entries
Overrides == IF map_custom.tag = "dict"
             THEN { map_custom.kids[i] : i \in 1..Len(map_custom.kids) }
             ELSE {}

\* C20: a field name with an entry in the overrides maps to the display
\* name of the override and to nothing else, and overrides that give two
\* names the same display name raise no error.
C20_OverridePrecedence ==
    pc = "mapping" =>
        /\ map_out.err = ""
        /\ \A o \in Overrides : o.k \in FieldNames => MappedTo(o.k) = { o.v }

C20_Witness ==
    /\ pc = "mapping"
    /\ map_out.err = ""
    /\ MappedTo(<<"_", "s">>) = { PyStr(<<"t">>) }
    /\ MappedTo(<<"s">>) = { PyStr(<<"t">>) }

(***************************************************************************)
(* Claims on the result of merge_records as a set of records               *)
(***************************************************************************)
\* C26: the result of merge holds at most one record per identity value,
\* every returned record is one of the input records, and the identity of
\* every input record that is not excluded (the excluded ones are those that
\* lack the identity field) is the identity of a returned record.
C26_OnePerIdentity ==
    MergeReturned =>
        /\ \A a, b \in 1..Len(merge_out.val) :
               a # b => Identity(merge_out.val[a]) # Identity(merge_out.val[b])
        /\ \A a \in 1..Len(merge_out.val) :
               \E i \in 1..Len(merge_in) : merge_in[i] = merge_out.val[a]
        /\ \A i \in 1..Len(merge_in) :
               HasKey(merge_in[i].kids, K_id) =>
                   \E a \in 1..Len(merge_out.val) :
                       Identity(merge_out.val[a]) = Identity(merge_in[i])

(***************************************************************************)
(* Claims on parse_fulcrum_date                                            *)
(***************************************************************************)
\* C27: for every input text, parse_fulcrum_date returns a datetime or None
\* and raises nothing.
C27_TotalOverStrings ==
    pc = "date" => date_out.err = "" /\ date_out.val.tag \in {"null", "datetime"}

(***************************************************************************)
(* Claims on export_records_to_csv                                         *)
(***************************************************************************)
\* the display name of a raw key under the mapping of the call
DisplayName(k) ==
    IF HasKey(csv_map.kids, k) THEN getitem(csv_map.kids, k).s ELSE k

\* C28: an export with a field mapping loses no data: the header is the
\* sorted union of the mapped keys of all records, there is one row per
\* record, also for a record that lacks some field, and every field value of
\* every record stands in its row under its mapped name, also when two raw
\* keys of the record map to one display name.
C28_NoDataLost ==
    (pc = "csv" /\ csv_out.val.path # <<>> /\ ~Falsy(csv_map)) =>
        LET header == csv_out.val.file.header
            rows == csv_out.val.file.rows
            names == { DisplayName(k) : k \in all_fields(csv_in) }
        IN /\ { header[c] : c \in 1..Len(header) } = names
           /\ \A c, d \in 1..Len(header) : c < d => StrLess(header[c], header[d], 1)
           /\ Len(rows) = Len(csv_in)
           /\ \A r \in 1..Len(csv_in) : \A i \in 1..Len(csv_in[r].kids) :
                  \E c \in 1..Len(header) :
                      /\ header[c] = DisplayName(csv_in[r].kids[i].k)
                      /\ rows[r][c] = csv_in[r].kids[i].v

(***************************************************************************)
(* Claims on the rate limiting of FulcrumAPIClient                         *)
(***************************************************************************)
\* C29: every request the client sends, those of download_photo and
\* upload_photo included, goes out right after _rate_limit, at the time it
\* stored in last_request_time; any two consecutive requests are at least
\* rate_limit_delay apart; last_request_time never decreases.
C29_RequestsRateLimited ==
    /\ [](\A i \in 1..Len(client.sent) :
            /\ client.sent[i].at <= client.last_request_time
            /\ i > 1 => client.sent[i].at - client.sent[i - 1].at >= rate_limit_delay)
    /\ [][client'.last_request_time >= client.last_request_time]_vars

(***************************************************************************)
(* Claims on create_data_package                                           *)
(***************************************************************************)
\* C25: once the package directory is made, each of the four export targets
\* is attempted whatever became of the others, and each is reported for
\* itself: a target whose file was written has its path in the exports of
\* the package and a success in the log, a target that failed has "" there
\* and an error in the log.
C25_TargetsIndependent ==
    (package.at \notin {"mkdir", "export"} /\ package.dir # "none") =>
        \A i \in 1..Len(Targets) :
            LET t == Targets[i]
            IN /\ t \in DOMAIN package.exports
               /\ t \in DOMAIN package.logged
               /\ t \in package.files =>
                      package.exports[t] = "path" /\ package.logged[t] = "info"
               /\ t \notin package.files =>
                      package.exports[t] = "" /\ package.logged[t] = "error"

C25_Witness ==
    /\ package.at = "done"
    /\ package.returned = "zip_path"
    /\ package.files = {"json", "report"}
    /\ package.exports["csv"] = ""
    /\ package.exports["excel"] = ""
    /\ package.exports["report"] = "path"

\* C30: whenever create_data_package has returned, the package directory it
\* made is gone, and the result is the ZIP path only with a complete archive
\* and the empty string otherwise.
C30_NoLeftovers ==
    package.at = "done" =>
        /\ package.dir # "exists"
        /\ package.returned \in {"zip_path", ""}
        /\ package.returned = "zip_path" => package.zip = "complete"

(***************************************************************************)
(* Claims on process_fulcrum_records: row r of the returned frame, with    *)
(* the column labels, is the normalized record of input record r           *)
(***************************************************************************)
\* the columns of the returned frame labelled name
ColumnsNamed(name) ==
    { c \in 1..Len(norm_out.val.columns) : norm_out.val.columns[c] = name }

\* the call returned one row for each input record
AllRowsReturned == Len(norm_out.val.rows) = Len(norm_in)

SystemKey(name) == <<"_">> \o name

FormValues(record) == get(record, Names.form_values, PyDict(<<>>))

\* C21: a record that has the system field _status and the form value status
\* is normalized to a record with exactly one entry named status, and the
\* value of that entry is the form value.
C21_FormValueWins ==
    pc = "normalize" =>
        \A r \in 1..Len(norm_in) :
            (/\ HasKey(norm_in[r].kids, SystemKey(Names.status))
             /\ HasKey(FormValues(norm_in[r]).kids, Names.status)) =>
                /\ AllRowsReturned
                /\ Cardinality(ColumnsNamed(Names.status)) = 1
                /\ \A c \in ColumnsNamed(Names.status) :
                       norm_out.val.rows[r][c] =
                           getitem(FormValues(norm_in[r]).kids, Names.status)

\* C22: a record whose _created_at is a text in neither accepted format (ISO
\* with Z, digits of epoch milliseconds) is returned with the rest of the
\* batch, its created_at is null, its status is normalized as for any
\* record, and a warning is recorded.
C22_UnparsableTimestampWarned ==
    pc = "normalize" =>
        \A r \in 1..Len(norm_in) :
            LET raw == get(norm_in[r], SystemKey(Names.created_at), PyStr(T_Jan))
            IN (~IsIso(raw.s) /\ ~IsDigits(raw.s)) =>
                   /\ AllRowsReturned
                   /\ \E c \in ColumnsNamed(Names.created_at) :
                          norm_out.val.rows[r][c].tag \in {"NaT", "nan", "null"}
                   /\ HasKey(norm_in[r].kids, SystemKey(Names.status)) =>
                          \E c \in ColumnsNamed(Names.status) :
                              norm_out.val.rows[r][c] =
                                  getitem(norm_in[r].kids, SystemKey(Names.status))
                   /\ warnings # <<>>

\* C23: a record without form_values is normalized without error, and the
\* entries of its normalized record, the null cells apart, are only its
\* system fields under their normalized names, _processed_at and the batch
\* label _form_name.
C23_OnlySystemAndMetadata ==
    pc = "normalize" =>
        \A r \in 1..Len(norm_in) :
            ~HasKey(norm_in[r].kids, Names.form_values) =>
                /\ AllRowsReturned
                /\ \A c \in 1..Len(norm_out.val.columns) :
                       norm_out.val.rows[r][c].tag \notin {"nan", "NaT"} =>
                           \/ norm_out.val.columns[c]
                                \in {Names.processed_at, Names.form_name}
                           \/ HasKey(norm_in[r].kids,
                                     SystemKey(norm_out.val.columns[c]))

====
